---- MODULE Spec2Model ----
(***************************************************************************)
(* Model of voutasaurus/mycrud: main.go (the CRUD demo) and the second     *)
(* program of the repository (connect, list users, exit).                  *)
(*                                                                         *)
(* The process environment, the file system and the MySQL user table are   *)
(* the program's surroundings; the driver's TLS registry, the resolved     *)
(* configuration and main's position are its state.                        *)
(***************************************************************************)
EXTENDS Integers, Sequences, FiniteSets, TLC

VARIABLES
    env,          \* process environment: name -> what os.LookupEnv returns
    fs,           \* file system: path -> file
    tlsRegistry,  \* mysql driver's tlsConfigRegistry: key -> tls.Config
    prog,         \* which main is running: "crud" (main.go) or "ping"
    pc,           \* main's position
    dconf,        \* main's dconf
    err,          \* main's err after the last call
    reads,        \* paths handed to the file system for reading, in order
    calls,        \* the calls made so far, each with whether it succeeded
    table,        \* rows of the user table, in insertion order
    nextId,       \* the next value of uuid()
    uu,           \* main's uu: the last list Users returned
    hist          \* loader harness: the tlsConfig calls made, with results

vars == <<env, fs, tlsRegistry, prog, pc, dconf, err, reads, calls, table,
          nextId, uu, hist>>

----------------------------------------------------------------------------
(* Bounds *)

MaxCalls == 3         \* db harness: number of calls to the db methods
MaxLoaderCalls == 2   \* loader harness: number of calls to tlsConfig

----------------------------------------------------------------------------
(* Errors.  Every error is a record, nil included. *)

NoErr == [kind |-> "nil", msg |-> ""]

errCertPath ==
    [kind |-> "errors.New", msg |-> "DB_CA_CERT_PATH is required and was not set"]
errClientCertPath ==
    [kind |-> "errors.New", msg |-> "DB_CLIENT_CERT_PATH is required and was not set"]
errClientKeyPath ==
    [kind |-> "errors.New", msg |-> "DB_CLIENT_KEY_PATH is required and was not set"]
errCertPEM ==
    [kind |-> "errors.New",
     msg |-> "trusted conn with DB not established, cannot parse cert PEM"]

\* *os.PathError of ioutil.ReadFile / os.Open
PathError(path) == [kind |-> "os.PathError", msg |-> path]
\* errors of crypto/tls.X509KeyPair
KeyPairError(what) == [kind |-> "tls", msg |-> what]
\* error of mysql.RegisterTLSConfig
ReservedKeyError(key) == [kind |-> "mysql", msg |-> key]
\* error of the database server or the connection
DBError(what) == [kind |-> "db", msg |-> what]

----------------------------------------------------------------------------
(* Environment *)

EnvNames == {"DB_USER", "DB_PASS", "DB_ADDR", "DB_NAME", "DB_SKIP_TLS",
             "DB_CA_CERT_PATH", "DB_CLIENT_CERT_PATH", "DB_CLIENT_KEY_PATH"}

Absent == [ok |-> FALSE, v |-> ""]
Set(v) == [ok |-> TRUE, v |-> v]

\* LookupEnv as os.Getenv would give it: an empty value reads as absent
LookupEnv_NonEmpty(name) == IF env[name].v = "" THEN Absent ELSE env[name]

\* os.LookupEnv: the value and whether the variable is present
LookupEnv(name) == env[name]

----------------------------------------------------------------------------
(* Files and PEM *)

CaPath == "/tls/ca.pem"
CaPath2 == "/tls/ca2.pem"
CertPath == "/tls/client-cert.pem"
KeyPath == "/tls/client-key.pem"
Paths == {CaPath, CaPath2, CertPath, KeyPath}

\* A PEM block: its type, whether its DER body parses, and the public key
\* it carries (certificate) or belongs to (private key).
Cert(pub) == [type |-> "CERTIFICATE", der |-> TRUE, pub |-> pub]
BadCert == [type |-> "CERTIFICATE", der |-> FALSE, pub |-> ""]
Key(pub) == [type |-> "PRIVATE KEY", der |-> TRUE, pub |-> pub]

NoFile == [exists |-> FALSE, blocks |-> <<>>]
File(blocks) == [exists |-> TRUE, blocks |-> blocks]

\* ReadFile dropping the error: an unreadable file reads as empty
ReadFile_NoError(path) ==
    IF path \in DOMAIN fs /\ fs[path].exists
    THEN [data |-> fs[path].blocks, err |-> NoErr]
    ELSE [data |-> <<>>, err |-> NoErr]

\* ioutil.ReadFile
ReadFile(path) ==
    IF path \in DOMAIN fs /\ fs[path].exists
    THEN [data |-> fs[path].blocks, err |-> NoErr]
    ELSE [data |-> <<>>, err |-> PathError(path)]

\* IsParsedCert without the parse: any CERTIFICATE block counts
IsParsedCert_Unparsed(b) == b.type = "CERTIFICATE"

IsParsedCert(b) == b.type = "CERTIFICATE" /\ b.der

\* AppendCertsFromPEM reporting success whatever was added
AppendCertsFromPEM_AlwaysOk(pem) ==
    [pool |-> SelectSeq(pem, IsParsedCert), ok |-> TRUE]

\* x509.CertPool.AppendCertsFromPEM on a new pool: the certificates
\* added, and ok, which is true when at least one was
AppendCertsFromPEM(pem) ==
    LET added == SelectSeq(pem, IsParsedCert)
    IN  [pool |-> added, ok |-> Len(added) > 0]

IsCertBlock(b) == b.type = "CERTIFICATE"
IsKeyBlock(b) == b.type = "PRIVATE KEY"

NoCert == [Certificate |-> <<>>, PrivateKey |-> BadCert]

\* tls.X509KeyPair
X509KeyPair(certPEM, keyPEM) ==
    LET certs == SelectSeq(certPEM, IsCertBlock)
        keys == SelectSeq(keyPEM, IsKeyBlock)
    IN  IF Len(certs) = 0
        THEN [cert |-> NoCert, err |-> KeyPairError("no certificate PEM data")]
        ELSE IF Len(keys) = 0
        THEN [cert |-> NoCert, err |-> KeyPairError("no key PEM data")]
        ELSE IF ~certs[1].der
        THEN [cert |-> NoCert, err |-> KeyPairError("cannot parse certificate")]
        ELSE IF ~keys[1].der
        THEN [cert |-> NoCert, err |-> KeyPairError("cannot parse private key")]
        ELSE IF certs[1].pub # keys[1].pub
        THEN [cert |-> NoCert,
              err |-> KeyPairError("private key does not match public key")]
        ELSE [cert |-> [Certificate |-> certs, PrivateKey |-> keys[1]],
              err |-> NoErr]

\* tls.LoadX509KeyPair: reads the certificate file, then the key file
LoadX509KeyPair(certFile, keyFile) ==
    LET c == ReadFile(certFile)
        k == ReadFile(keyFile)
    IN  IF c.err # NoErr
        THEN [cert |-> NoCert, err |-> c.err, reads |-> <<certFile>>]
        ELSE IF k.err # NoErr
        THEN [cert |-> NoCert, err |-> k.err, reads |-> <<certFile, keyFile>>]
        ELSE [cert |-> X509KeyPair(c.data, k.data).cert,
              err |-> X509KeyPair(c.data, k.data).err,
              reads |-> <<certFile, keyFile>>]

----------------------------------------------------------------------------
(* The driver's TLS registry *)

EmptyRegistry == [k \in {} |-> NoCert]

ReservedKeys == {"1", "t", "T", "true", "TRUE", "True",
                 "0", "f", "F", "false", "FALSE", "False",
                 "skip-verify", "preferred"}

\* RegisterTLSConfig refusing a key that is registered already
RegisterTLSConfig_NoOverwrite(reg, key, config) ==
    IF key \in ReservedKeys \/ key \in DOMAIN reg
    THEN [reg |-> reg, err |-> ReservedKeyError(key)]
    ELSE [reg |-> [k \in DOMAIN reg \cup {key} |->
                      IF k = key THEN config ELSE reg[k]],
          err |-> NoErr]

\* mysql.RegisterTLSConfig: refuses a reserved key, else stores the
\* configuration under the key, replacing what was there
RegisterTLSConfig(reg, key, config) ==
    IF key \in ReservedKeys
    THEN [reg |-> reg, err |-> ReservedKeyError(key)]
    ELSE [reg |-> [k \in DOMAIN reg \cup {key} |->
                      IF k = key THEN config ELSE reg[k]],
          err |-> NoErr]

\* the fixed lookup key of tlsConfig
tconfKeyCustom == "custom"

\* tlsConfig registering the configuration before it looks at the key
\* pair's error
tlsConfig_RegisterEarly(caCertPath, clientCertPath, clientKeyPath, reg) ==
    LET pem == ReadFile(caCertPath)
        root == AppendCertsFromPEM(pem.data)
        pair == LoadX509KeyPair(clientCertPath, clientKeyPath)
        dbTLSConfig == [RootCAs |-> root.pool, Certificates |-> <<pair.cert>>]
        r == RegisterTLSConfig(reg, tconfKeyCustom, dbTLSConfig)
    IN  IF pem.err # NoErr
        THEN [tconfKey |-> "", err |-> pem.err, reg |-> reg,
              reads |-> <<caCertPath>>]
        ELSE IF ~root.ok
        THEN [tconfKey |-> "", err |-> errCertPEM, reg |-> reg,
              reads |-> <<caCertPath>>]
        ELSE IF r.err # NoErr
        THEN [tconfKey |-> "", err |-> r.err, reg |-> r.reg,
              reads |-> <<caCertPath>> \o pair.reads]
        ELSE IF pair.err # NoErr
        THEN [tconfKey |-> "", err |-> pair.err, reg |-> r.reg,
              reads |-> <<caCertPath>> \o pair.reads]
        ELSE [tconfKey |-> tconfKeyCustom, err |-> NoErr, reg |-> r.reg,
              reads |-> <<caCertPath>> \o pair.reads]

\* tlsConfig(caCertPath, clientCertPath, clientKeyPath) on registry reg:
\* the key and error it returns, the registry it leaves, the files it read
tlsConfig(caCertPath, clientCertPath, clientKeyPath, reg) ==
    LET pem == ReadFile(caCertPath)
        root == AppendCertsFromPEM(pem.data)
        pair == LoadX509KeyPair(clientCertPath, clientKeyPath)
        dbTLSConfig == [RootCAs |-> root.pool, Certificates |-> <<pair.cert>>]
        r == RegisterTLSConfig(reg, tconfKeyCustom, dbTLSConfig)
    IN  IF pem.err # NoErr
        THEN [tconfKey |-> "", err |-> pem.err, reg |-> reg,
              reads |-> <<caCertPath>>]
        ELSE IF ~root.ok
        THEN [tconfKey |-> "", err |-> errCertPEM, reg |-> reg,
              reads |-> <<caCertPath>>]
        ELSE IF pair.err # NoErr
        THEN [tconfKey |-> "", err |-> pair.err, reg |-> reg,
              reads |-> <<caCertPath>> \o pair.reads]
        ELSE IF r.err # NoErr
        THEN [tconfKey |-> "", err |-> r.err, reg |-> r.reg,
              reads |-> <<caCertPath>> \o pair.reads]
        ELSE [tconfKey |-> tconfKeyCustom, err |-> NoErr, reg |-> r.reg,
              reads |-> <<caCertPath>> \o pair.reads]

----------------------------------------------------------------------------
(* Configuration *)

NilConf == [nil |-> TRUE]

\* the mysql.Config literal of dbConfFromEnv
DefaultConf ==
    [User |-> "root", Passwd |-> "", Net |-> "tcp", Addr |-> "localhost:3306",
     DBName |-> "mycrud", Loc |-> "UTC", ParseTime |-> TRUE, TLSConfig |-> ""]

\* Override by value: an empty value does not override
Override_NonEmpty(name, default) ==
    IF LookupEnv(name).v # "" THEN LookupEnv(name).v ELSE default

\* if v, ok := os.LookupEnv(name); ok { field = v }
Override(name, default) ==
    IF LookupEnv(name).ok THEN LookupEnv(name).v ELSE default

\* the configuration after the four overrides
OverriddenConf ==
    [DefaultConf EXCEPT !.User = Override("DB_USER", @),
                        !.Passwd = Override("DB_PASS", @),
                        !.Addr = Override("DB_ADDR", @),
                        !.DBName = Override("DB_NAME", @)]

\* the three checks in the opposite order
MissingPathErr_KeyFirst ==
    IF ~LookupEnv("DB_CLIENT_KEY_PATH").ok THEN errClientKeyPath
    ELSE IF ~LookupEnv("DB_CLIENT_CERT_PATH").ok THEN errClientCertPath
    ELSE IF ~LookupEnv("DB_CA_CERT_PATH").ok THEN errCertPath
    ELSE NoErr

\* the three required-path checks, in the order of the code: the error of
\* the first absent variable, or nil
MissingPathErr ==
    IF ~LookupEnv("DB_CA_CERT_PATH").ok THEN errCertPath
    ELSE IF ~LookupEnv("DB_CLIENT_CERT_PATH").ok THEN errClientCertPath
    ELSE IF ~LookupEnv("DB_CLIENT_KEY_PATH").ok THEN errClientKeyPath
    ELSE NoErr

\* dbConfFromEnv() on registry reg: the configuration and error it returns,
\* the registry it leaves, the files it read
dbConfFromEnv(reg) ==
    LET t == tlsConfig(LookupEnv("DB_CA_CERT_PATH").v,
                       LookupEnv("DB_CLIENT_CERT_PATH").v,
                       LookupEnv("DB_CLIENT_KEY_PATH").v, reg)
    IN  IF LookupEnv("DB_SKIP_TLS").ok
        THEN [dconf |-> OverriddenConf, err |-> NoErr, reg |-> reg,
              reads |-> <<>>]
        ELSE IF MissingPathErr # NoErr
        THEN [dconf |-> NilConf, err |-> MissingPathErr, reg |-> reg,
              reads |-> <<>>]
        ELSE IF t.err # NoErr
        THEN [dconf |-> NilConf, err |-> t.err, reg |-> t.reg,
              reads |-> t.reads]
        ELSE [dconf |-> [OverriddenConf EXCEPT !.TLSConfig = t.tconfKey],
              err |-> NoErr, reg |-> t.reg, reads |-> t.reads]

----------------------------------------------------------------------------
(* The database: the user table behind db.db *)

Names == {"jerry", "Jerry", "tom"}

\* a row of user: the uuid the trigger sets and the name (the two
\* timestamp columns are set by the server and read by nobody but Println)
Row(id, name) == [id |-> id, name |-> name]

HasName(tbl, name) == \E i \in 1..Len(tbl) : tbl[i].name = name

\* the orders in which a server may hand out n rows
Orders(n) == {f \in [1..n -> 1..n] : \A i, j \in 1..n : f[i] = f[j] => i = j}

\* the loop with u declared outside it: every element points at the one
\* user, which holds the last row scanned
ScanRows_SharedRow(rows) == [i \in 1..Len(rows) |-> rows[Len(rows)]]

\* the rows.Next()/rows.Scan loop of Users: one new user per row, appended
ScanRows(rows) == [i \in 1..Len(rows) |-> rows[i]]

\* select id,cat,uat,name from user: the statement names no order, so the
\* server returns the rows in an order of its choosing
QueryUsers(tbl, order) == [i \in 1..Len(tbl) |-> tbl[order[i]]]

\* db.Users
Users(tbl, connOk, order) ==
    IF ~connOk
    THEN [uu |-> <<>>, err |-> DBError("query")]
    ELSE [uu |-> ScanRows(QueryUsers(tbl, order)), err |-> NoErr]

\* db.AddUser: insert into user(name) values(?), name being unique
AddUser(tbl, id, name, connOk) ==
    IF ~connOk
    THEN [table |-> tbl, err |-> DBError("exec")]
    ELSE IF HasName(tbl, name)
    THEN [table |-> tbl, err |-> DBError("duplicate entry")]
    ELSE [table |-> Append(tbl, Row(id, name)), err |-> NoErr]

\* db.DelUser: delete from user where name=?
DelUser(tbl, name, connOk) ==
    LET Keep(r) == r.name # name
    IN  IF ~connOk
        THEN [table |-> tbl, err |-> DBError("exec")]
        ELSE [table |-> SelectSeq(tbl, Keep), err |-> NoErr]

\* db.UpdateUser: update user set name=? where name=?
UpdateUser(tbl, oldname, newname, connOk) ==
    IF ~connOk
    THEN [table |-> tbl, err |-> DBError("exec")]
    ELSE IF oldname # newname /\ HasName(tbl, oldname) /\ HasName(tbl, newname)
    THEN [table |-> tbl, err |-> DBError("duplicate entry")]
    ELSE [table |-> [i \in 1..Len(tbl) |->
                        IF tbl[i].name = oldname
                        THEN [tbl[i] EXCEPT !.name = newname]
                        ELSE tbl[i]],
          err |-> NoErr]

\* newDB: sql.Open on the DSN of the configuration, then Ping.  The driver
\* refuses a tls parameter that names no registered configuration.
newDB(conf, reg, connOk) ==
    IF conf.TLSConfig # "" /\ conf.TLSConfig \notin DOMAIN reg
    THEN DBError("newDB Open")
    ELSE IF ~connOk
    THEN DBError("newDB Ping")
    ELSE NoErr

----------------------------------------------------------------------------
(* main *)

\* the statements of main.go's main, in order
CrudSteps == <<"dbConfFromEnv", "newDB", "Users", "AddUser", "Users",
               "UpdateUser", "Users", "DelUser", "Users">>
\* the statements of the second program's main
PingSteps == <<"dbConfFromEnv", "newDB", "Users">>

\* a harness that calls the functions directly runs no main
Steps(p) ==
    IF p = "crud" THEN CrudSteps ELSE IF p = "ping" THEN PingSteps ELSE <<>>

\* main going on after an error
AfterCall_IgnoreErr(p, at, e) == at + 1

\* if err != nil { log.Fatal(err) }: position 0 is the exit of log.Fatal,
\* the position after the last statement is the return of main
AfterCall(p, at, e) ==
    IF e # NoErr THEN 0 ELSE at + 1

Running == pc >= 1 /\ pc <= Len(Steps(prog))
At(op) == Running /\ Steps(prog)[pc] = op
Fatal == pc = 0

Called(op, e) == Append(calls, [op |-> op, ok |-> e = NoErr])

MainDbConfFromEnv ==
    /\ At("dbConfFromEnv")
    /\ LET r == dbConfFromEnv(tlsRegistry)
       IN  /\ dconf' = r.dconf
           /\ err' = r.err
           /\ tlsRegistry' = r.reg
           /\ reads' = reads \o r.reads
           /\ calls' = Called("dbConfFromEnv", r.err)
           /\ pc' = AfterCall(prog, pc, r.err)
    /\ UNCHANGED <<env, fs, prog, table, nextId, uu, hist>>

MainNewDB ==
    /\ At("newDB")
    /\ \E connOk \in BOOLEAN :
          LET e == newDB(dconf, tlsRegistry, connOk)
          IN  /\ err' = e
              /\ calls' = Called("newDB", e)
              /\ pc' = AfterCall(prog, pc, e)
    /\ UNCHANGED <<env, fs, tlsRegistry, prog, dconf, reads, table, nextId,
                   uu, hist>>

MainUsers ==
    /\ At("Users")
    /\ \E connOk \in BOOLEAN : \E order \in Orders(Len(table)) :
          LET r == Users(table, connOk, order)
          IN  /\ uu' = r.uu
              /\ err' = r.err
              /\ calls' = Called("Users", r.err)
              /\ pc' = AfterCall(prog, pc, r.err)
    /\ UNCHANGED <<env, fs, tlsRegistry, prog, dconf, reads, table, nextId,
                   hist>>

MainAddUser ==
    /\ At("AddUser")
    /\ \E connOk \in BOOLEAN :
          LET r == AddUser(table, nextId, "jerry", connOk)
          IN  /\ table' = r.table
              /\ nextId' = nextId + 1
              /\ err' = r.err
              /\ calls' = Called("AddUser", r.err)
              /\ pc' = AfterCall(prog, pc, r.err)
    /\ UNCHANGED <<env, fs, tlsRegistry, prog, dconf, reads, uu, hist>>

MainUpdateUser ==
    /\ At("UpdateUser")
    /\ \E connOk \in BOOLEAN :
          LET r == UpdateUser(table, "jerry", "Jerry", connOk)
          IN  /\ table' = r.table
              /\ err' = r.err
              /\ calls' = Called("UpdateUser", r.err)
              /\ pc' = AfterCall(prog, pc, r.err)
    /\ UNCHANGED <<env, fs, tlsRegistry, prog, dconf, reads, nextId, uu, hist>>

MainDelUser ==
    /\ At("DelUser")
    /\ \E connOk \in BOOLEAN :
          LET r == DelUser(table, "Jerry", connOk)
          IN  /\ table' = r.table
              /\ err' = r.err
              /\ calls' = Called("DelUser", r.err)
              /\ pc' = AfterCall(prog, pc, r.err)
    /\ UNCHANGED <<env, fs, tlsRegistry, prog, dconf, reads, nextId, uu, hist>>

\* the values the environment variables take
UserValues == {Absent, Set(""), Set("admin")}
PassValues == {Absent, Set(""), Set("s3cret")}
AddrValues == {Absent, Set(""), Set("db.example:3307")}
NameValues == {Absent, Set(""), Set("crud2")}
SkipValues == {Absent, Set(""), Set("1")}

Environments ==
    {[n \in EnvNames |->
        CASE n = "DB_USER" -> u
          [] n = "DB_PASS" -> p
          [] n = "DB_ADDR" -> a
          [] n = "DB_NAME" -> d
          [] n = "DB_SKIP_TLS" -> s
          [] n = "DB_CA_CERT_PATH" -> ca
          [] n = "DB_CLIENT_CERT_PATH" -> cc
          [] n = "DB_CLIENT_KEY_PATH" -> ck] :
        u \in UserValues, p \in PassValues, a \in AddrValues,
        d \in NameValues, s \in SkipValues, ca \in {Absent, Set(CaPath)},
        cc \in {Absent, Set(CertPath)}, ck \in {Absent, Set(KeyPath)}}

\* the file systems main is run on
GoodFS ==
    [p \in Paths |->
        IF p = CaPath THEN File(<<Cert("ca")>>)
        ELSE IF p = CaPath2 THEN File(<<BadCert, Cert("ca2")>>)
        ELSE IF p = CertPath THEN File(<<Cert("client")>>)
        ELSE File(<<Key("client")>>)]

FileSystems ==
    {GoodFS,
     [GoodFS EXCEPT ![CaPath] = NoFile],
     [GoodFS EXCEPT ![CaPath] = File(<<BadCert>>)],
     [GoodFS EXCEPT ![CertPath] = NoFile],
     [GoodFS EXCEPT ![KeyPath] = File(<<Key("other")>>)]}

\* the user tables main finds
InitialTables == {<<>>, <<Row(1, "tom")>>, <<Row(1, "jerry")>>}

Init ==
    /\ env \in Environments
    /\ fs \in FileSystems
    /\ tlsRegistry = EmptyRegistry
    /\ prog \in {"crud", "ping"}
    /\ pc = 1
    /\ dconf = NilConf
    /\ err = NoErr
    /\ reads = <<>>
    /\ calls = <<>>
    /\ table \in InitialTables
    /\ nextId = Len(table) + 1
    /\ uu = <<>>
    /\ hist = <<>>

Next ==
    \/ MainDbConfFromEnv
    \/ MainNewDB
    \/ MainUsers
    \/ MainAddUser
    \/ MainUpdateUser
    \/ MainDelUser

Spec == Init /\ [][Next]_vars

----------------------------------------------------------------------------
(* Harness: tlsConfig called directly, any number of times, on any files *)

Contents ==
    {NoFile, File(<<>>), File(<<BadCert>>), File(<<Cert("a")>>),
     File(<<Key("a")>>), File(<<Key("b")>>), File(<<Cert("a"), Key("a")>>),
     File(<<BadCert, Cert("b")>>)}

NoEnv == [n \in EnvNames |-> Absent]

InitLoader ==
    /\ env = NoEnv
    /\ fs \in [Paths -> Contents]
    /\ tlsRegistry = EmptyRegistry
    /\ prog = "tlsConfig"
    /\ pc = 1
    /\ dconf = NilConf
    /\ err = NoErr
    /\ reads = <<>>
    /\ calls = <<>>
    /\ table = <<>>
    /\ nextId = 1
    /\ uu = <<>>
    /\ hist = <<>>

CallTlsConfig ==
    /\ prog = "tlsConfig"
    /\ Len(hist) < MaxLoaderCalls
    /\ \E ca \in {CaPath, CaPath2} : \E key \in {KeyPath, CertPath} :
          LET r == tlsConfig(ca, CertPath, key, tlsRegistry)
          IN  /\ hist' = Append(hist,
                    [ca |-> ca, cert |-> CertPath, key |-> key,
                     tconfKey |-> r.tconfKey, err |-> r.err,
                     reads |-> r.reads, before |-> tlsRegistry,
                     after |-> r.reg])
              /\ tlsRegistry' = r.reg
              /\ err' = r.err
    /\ UNCHANGED <<env, fs, prog, pc, dconf, reads, calls, table, nextId, uu>>

NextLoader == CallTlsConfig

SpecLoader == InitLoader /\ [][NextLoader]_vars

----------------------------------------------------------------------------
(* Harness: the db methods called directly, in any order *)

InitDB ==
    /\ env = NoEnv
    /\ fs = GoodFS
    /\ tlsRegistry = EmptyRegistry
    /\ prog = "db"
    /\ pc = 1
    /\ dconf = NilConf
    /\ err = NoErr
    /\ reads = <<>>
    /\ calls = <<>>
    /\ table \in InitialTables
    /\ nextId = Len(table) + 1
    /\ uu = <<>>
    /\ hist = <<>>

CallUsers ==
    /\ prog = "db"
    /\ Len(calls) < MaxCalls
    /\ \E connOk \in BOOLEAN : \E order \in Orders(Len(table)) :
          LET r == Users(table, connOk, order)
          IN  /\ uu' = r.uu
              /\ err' = r.err
              /\ calls' = Called("Users", r.err)
    /\ UNCHANGED <<env, fs, tlsRegistry, prog, pc, dconf, reads, table,
                   nextId, hist>>

CallAddUser ==
    /\ prog = "db"
    /\ Len(calls) < MaxCalls
    /\ \E connOk \in BOOLEAN : \E name \in Names :
          LET r == AddUser(table, nextId, name, connOk)
          IN  /\ table' = r.table
              /\ nextId' = nextId + 1
              /\ err' = r.err
              /\ calls' = Called("AddUser", r.err)
    /\ UNCHANGED <<env, fs, tlsRegistry, prog, pc, dconf, reads, uu, hist>>

CallUpdateUser ==
    /\ prog = "db"
    /\ Len(calls) < MaxCalls
    /\ \E connOk \in BOOLEAN : \E oldname \in Names : \E newname \in Names :
          LET r == UpdateUser(table, oldname, newname, connOk)
          IN  /\ table' = r.table
              /\ err' = r.err
              /\ calls' = Called("UpdateUser", r.err)
    /\ UNCHANGED <<env, fs, tlsRegistry, prog, pc, dconf, reads, nextId, uu,
                   hist>>

CallDelUser ==
    /\ prog = "db"
    /\ Len(calls) < MaxCalls
    /\ \E connOk \in BOOLEAN : \E name \in Names :
          LET r == DelUser(table, name, connOk)
          IN  /\ table' = r.table
              /\ err' = r.err
              /\ calls' = Called("DelUser", r.err)
    /\ UNCHANGED <<env, fs, tlsRegistry, prog, pc, dconf, reads, nextId, uu,
                   hist>>

NextDB ==
    \/ CallUsers
    \/ CallAddUser
    \/ CallUpdateUser
    \/ CallDelUser

SpecDB == InitDB /\ [][NextDB]_vars

----------------------------------------------------------------------------
(* Properties *)

Skip == env["DB_SKIP_TLS"].ok
AllPathsSet ==
    /\ env["DB_CA_CERT_PATH"].ok
    /\ env["DB_CLIENT_CERT_PATH"].ok
    /\ env["DB_CLIENT_KEY_PATH"].ok

\* main has called dbConfFromEnv, and it returned
Resolved == prog \in {"crud", "ping"} /\ calls # <<>>
ResolvedOk == Resolved /\ calls[1].ok

\* a tls.Certificate whose leaf and private key parse and belong together
ValidKeyPair(c) ==
    /\ Len(c.Certificate) > 0
    /\ c.Certificate[1].type = "CERTIFICATE"
    /\ c.Certificate[1].der
    /\ c.PrivateKey.type = "PRIVATE KEY"
    /\ c.PrivateKey.der
    /\ c.PrivateKey.pub = c.Certificate[1].pub

\* a registered configuration with at least one root and a valid key pair
ValidProfile(t) ==
    /\ Len(t.RootCAs) > 0
    /\ \A i \in 1..Len(t.RootCAs) :
          t.RootCAs[i].type = "CERTIFICATE" /\ t.RootCAs[i].der
    /\ Len(t.Certificates) = 1
    /\ ValidKeyPair(t.Certificates[1])

\* C1: without DB_SKIP_TLS, a configuration returned without error carries
\* the key "custom", and a profile with a non-empty root set and a valid
\* client key pair is registered under "custom".
C1_TrustProfilePresent ==
    (ResolvedOk /\ ~Skip) =>
        /\ dconf # NilConf
        /\ dconf.TLSConfig = "custom"
        /\ "custom" \in DOMAIN tlsRegistry
        /\ ValidProfile(tlsRegistry["custom"])

C1_Witness == ResolvedOk /\ ~Skip /\ dconf # NilConf

\* C2: with DB_SKIP_TLS present, whatever its value and whatever the three
\* path variables, dbConfFromEnv succeeds with no trust profile attached,
\* reads no file and registers nothing; with only DB_SKIP_TLS set the
\* other fields are the defaults.
C2_SkipTLS ==
    (Resolved /\ Skip) =>
        /\ calls[1].ok
        /\ dconf # NilConf
        /\ dconf.TLSConfig = ""
        /\ reads = <<>>
        /\ DOMAIN tlsRegistry = {}
        /\ (\A n \in EnvNames \ {"DB_SKIP_TLS"} : ~env[n].ok) =>
              /\ dconf.User = "root"
              /\ dconf.Passwd = ""
              /\ dconf.Addr = "localhost:3306"
              /\ dconf.DBName = "mycrud"

C2_Witness ==
    Resolved /\ env["DB_SKIP_TLS"] = Set("") /\ AllPathsSet /\ dconf # NilConf

\* the message of the error for the first absent path variable, in the
\* order CA certificate, client certificate, client key
FirstMissingMsg ==
    IF ~env["DB_CA_CERT_PATH"].ok
    THEN "DB_CA_CERT_PATH is required and was not set"
    ELSE IF ~env["DB_CLIENT_CERT_PATH"].ok
    THEN "DB_CLIENT_CERT_PATH is required and was not set"
    ELSE "DB_CLIENT_KEY_PATH is required and was not set"

\* C3: without DB_SKIP_TLS and with a path variable absent, dbConfFromEnv
\* fails with the error naming the first absent variable (CA certificate,
\* client certificate, client key), returns no configuration, reads no
\* file and registers nothing.
C3_MissingPath ==
    (Resolved /\ ~Skip /\ ~AllPathsSet) =>
        /\ ~calls[1].ok
        /\ dconf = NilConf
        /\ err.msg = FirstMissingMsg
        /\ reads = <<>>
        /\ DOMAIN tlsRegistry = {}

C3_Witness ==
    /\ Resolved /\ ~Skip
    /\ env["DB_CA_CERT_PATH"].ok
    /\ ~env["DB_CLIENT_CERT_PATH"].ok
    /\ ~env["DB_CLIENT_KEY_PATH"].ok
    /\ err.msg = "DB_CLIENT_CERT_PATH is required and was not set"

\* what a field is to be: the variable's value when present, else the default
Expected(name, default) == IF env[name].ok THEN env[name].v ELSE default

\* C4: each of username, password, address and database name equals the
\* value of its own variable when that variable is present, the empty
\* string included, and its default when absent.
C4_Overrides ==
    (Resolved /\ dconf # NilConf) =>
        /\ dconf.User = Expected("DB_USER", "root")
        /\ dconf.Passwd = Expected("DB_PASS", "")
        /\ dconf.Addr = Expected("DB_ADDR", "localhost:3306")
        /\ dconf.DBName = Expected("DB_NAME", "mycrud")

C4_Witness ==
    /\ Resolved /\ dconf # NilConf
    /\ env["DB_USER"] = Set("")
    /\ env["DB_PASS"] = Set("s3cret")
    /\ ~env["DB_ADDR"].ok
    /\ env["DB_NAME"] = Set("crud2")
    /\ dconf.User = "" /\ dconf.Addr = "localhost:3306"

\* the file is readable and no certificate can be taken from it
NoValidCert(path) ==
    /\ fs[path].exists
    /\ \A i \in 1..Len(fs[path].blocks) :
          ~(fs[path].blocks[i].type = "CERTIFICATE" /\ fs[path].blocks[i].der)

\* C5: on a readable CA bundle that yields no valid certificate, tlsConfig
\* fails with errCertPEM, having read the bundle alone and registered
\* nothing; no registered profile has an empty root set.
C5_EmptyBundle ==
    /\ \A i \in 1..Len(hist) :
          NoValidCert(hist[i].ca) =>
              /\ hist[i].err.msg =
                    "trusted conn with DB not established, cannot parse cert PEM"
              /\ hist[i].tconfKey = ""
              /\ hist[i].reads = <<hist[i].ca>>
              /\ hist[i].after = hist[i].before
    /\ \A k \in DOMAIN tlsRegistry : Len(tlsRegistry[k].RootCAs) > 0

C5_Witness ==
    \E i \in 1..Len(hist) :
        /\ fs[hist[i].ca] = File(<<BadCert>>)
        /\ hist[i].err # NoErr

\* the CA bundle holds a certificate, and the first certificate of the
\* client certificate file and the first key of the key file belong together
WellFormed(h) ==
    /\ fs[h.ca].exists /\ ~NoValidCert(h.ca)
    /\ fs[h.cert].exists /\ fs[h.key].exists
    /\ LET certs == SelectSeq(fs[h.cert].blocks, IsCertBlock)
           keys == SelectSeq(fs[h.key].blocks, IsKeyBlock)
       IN  /\ Len(certs) > 0 /\ Len(keys) > 0
           /\ certs[1].der /\ keys[1].der
           /\ certs[1].pub = keys[1].pub

SameInputs(g, h) == g.ca = h.ca /\ g.cert = h.cert /\ g.key = h.key

\* the calls that succeeded
Succeeded == {i \in 1..Len(hist) : hist[i].err = NoErr}

\* C6: on well-formed inputs tlsConfig succeeds and returns the non-empty
\* key "custom", the second time as the first; after any successful calls
\* the registry holds exactly one profile, under that key, the one of the
\* most recent successful call.
C6_LastWriteWins ==
    /\ \A i \in 1..Len(hist) :
          WellFormed(hist[i]) =>
              /\ hist[i].err = NoErr
              /\ hist[i].tconfKey = "custom"
    /\ \A i, j \in 1..Len(hist) :
          (SameInputs(hist[i], hist[j]) /\ hist[i].err = NoErr) =>
              /\ hist[j].err = NoErr
              /\ hist[j].tconfKey = hist[i].tconfKey
    /\ Succeeded # {} =>
          LET last == CHOOSE i \in Succeeded : \A j \in Succeeded : j <= i
          IN  /\ DOMAIN tlsRegistry = {"custom"}
              /\ tlsRegistry["custom"].RootCAs =
                    SelectSeq(fs[hist[last].ca].blocks, IsParsedCert)
              /\ ValidProfile(tlsRegistry["custom"])

C6_Witness ==
    /\ Len(hist) >= 2
    /\ SameInputs(hist[1], hist[2])
    /\ WellFormed(hist[1])
    /\ hist[1].err = NoErr /\ hist[2].err = NoErr

\* C7 as stated: dbConfFromEnv leaves the trust-profile registry as it
\* found it.
C7_NoSideEffects ==
    [][At("dbConfFromEnv") => tlsRegistry' = tlsRegistry]_vars

\* C7 as amended: dbConfFromEnv changes neither the environment nor the
\* files; it leaves the registry as it found it when DB_SKIP_TLS is present
\* or it fails, and reads files only when DB_SKIP_TLS is absent and the
\* three paths are set; when it succeeds without DB_SKIP_TLS it has set the
\* entry "custom" of the registry and no other.
C7_SideEffects ==
    [][At("dbConfFromEnv") =>
        /\ env' = env /\ fs' = fs
        /\ (Skip \/ ~AllPathsSet) => reads' = reads
        /\ IF ~Skip /\ err' = NoErr
           THEN /\ DOMAIN tlsRegistry' = DOMAIN tlsRegistry \cup {"custom"}
                /\ \A k \in DOMAIN tlsRegistry \ {"custom"} :
                      tlsRegistry'[k] = tlsRegistry[k]
                /\ reads' # reads
           ELSE tlsRegistry' = tlsRegistry]_vars

C7_Witness ==
    /\ ResolvedOk /\ ~Skip
    /\ "custom" \in DOMAIN tlsRegistry
    /\ reads = <<CaPath, CertPath, KeyPath>>

\* C8 as stated: on an unreadable CA bundle tlsConfig fails with errCertPEM.
C8_UnreadableIsParseError ==
    \A i \in 1..Len(hist) :
        ~fs[hist[i].ca].exists =>
            hist[i].err.msg =
                "trusted conn with DB not established, cannot parse cert PEM"

\* C8 as amended: on an unreadable CA bundle tlsConfig fails with the error
\* of ReadFile, which is not errCertPEM, having read nothing else and
\* registered nothing.
C8_UnreadableIsReadError ==
    \A i \in 1..Len(hist) :
        ~fs[hist[i].ca].exists =>
            /\ hist[i].err.kind = "os.PathError"
            /\ hist[i].err.msg = hist[i].ca
            /\ hist[i].tconfKey = ""
            /\ hist[i].reads = <<hist[i].ca>>
            /\ hist[i].after = hist[i].before

C8_Witness ==
    \E i \in 1..Len(hist) : fs[hist[i].ca] = NoFile /\ hist[i].err # NoErr

\* C9: main makes its calls in program order, each one only after every
\* earlier one succeeded; after a failed call it has exited and calls
\* nothing more, so a failed dbConfFromEnv is the only call of its run.
C9_FailFast ==
    prog \in {"crud", "ping"} =>
        /\ Len(calls) <= Len(Steps(prog))
        /\ \A i \in 1..Len(calls) :
              /\ calls[i].op = Steps(prog)[i]
              /\ i < Len(calls) => calls[i].ok
        /\ (calls # <<>> /\ ~calls[1].ok) => (Len(calls) = 1 /\ Fatal)
        /\ Fatal <=> (calls # <<>> /\ ~calls[Len(calls)].ok)
        /\ ~Fatal => pc = Len(calls) + 1
        /\ calls = <<>> => (uu = <<>> /\ table \in InitialTables)

C9_Witness ==
    /\ prog = "crud" /\ Fatal
    /\ Len(calls) = 1 /\ calls[1].op = "dbConfFromEnv" /\ ~calls[1].ok

\* the last call was a Users that succeeded
UsersReturned ==
    /\ prog = "db" /\ calls # <<>>
    /\ calls[Len(calls)].op = "Users" /\ calls[Len(calls)].ok

\* C10 as stated: the list Users returns holds the current rows in the
\* order in which they were inserted.
C10_InsertionOrder == UsersReturned => uu = table

\* C10 as amended: the list Users returns holds exactly the current rows,
\* each once, in an order the server chooses.
C10_AllRows ==
    UsersReturned =>
        /\ Len(uu) = Len(table)
        /\ \A i \in 1..Len(table) :
              Cardinality({j \in 1..Len(uu) : uu[j] = table[i]}) = 1

C10_Witness ==
    /\ UsersReturned
    /\ Len(table) = 2
    /\ uu = <<table[2], table[1]>>

====
